---- MODULE Spec2Model ----
(***************************************************************************)
(* The alarm scheduler of nag_me (src/src/nagger.rs): the Alarm Queue (a   *)
(* SortedVec<Alarm> behind an async Mutex), the callers of add_alarm and   *)
(* del_alarm, the Scheduler Loop (Nagger::runner), the Delivery Channel    *)
(* and a discrete clock.                                                   *)
(***************************************************************************)
EXTENDS Integers, Sequences, FiniteSets, TLC

\* ------------------------------------------------------------------ bounds
\* add_alarm calls made in one behaviour
MaxAlarms == 3
\* due times are drawn from 0..MaxDue
MaxDue == 2
\* concurrent callers of add_alarm / del_alarm
NumCallers == 2
\* capacity of the bounded Delivery Channel handed to Nagger::init
ChanCap == 1

\* the clock saturates one tick past the largest due time: at MaxTime every
\* alarm is past due, so comparisons with due times stay exact
MaxTime == MaxDue + 1

Names == {"x", "y"}
Callers == 1..NumCallers
Times == 0..MaxDue

\* the polling interval of the empty-queue arm, in clock ticks
PollInterval == 1

VARIABLES
    alarms,     \* the SortedVec<Alarm> inside the Mutex, front to back
    lock,       \* who holds the MutexGuard: "free" or "runner"
    rpc,        \* where the Scheduler Loop is
    cur,        \* the alarm the loop has popped and not yet sent
    timer,      \* ticks left of the loop's current task::sleep
    now,        \* Local::now()
    creq,       \* per caller: the call in progress
    nextId,     \* alarms constructed so far
    sent,       \* alarms sent on the Delivery Channel, in order
    chanLen,    \* alarms buffered in the channel, not yet received
    closed,     \* the consumer end has been closed
    removed,    \* alarms returned by del_alarm (Some(alarm) results)
    early,      \* pairs <<E, L>> of alarm ids: add_alarm(E) was called while
                \* the loop slept on the popped alarm L, due later than E
    insDuringWait, \* an insert completed while the loop held a popped alarm
    delMiss,    \* the step just taken was a del_alarm call returning None
    status,     \* per task: its TaskStatus
    notes,      \* per task: its notes' completed fields, oldest first
    tlast       \* the last Task method called: name, receiver, Ok or Err

\* the task tree's part of the state, and the scheduler's
tvars == <<status, notes, tlast>>
nvars == <<alarms, lock, rpc, cur, timer, now, creq, nextId, sent,
           chanLen, closed, removed, early, insDuringWait, delMiss>>

vars == <<nvars, tvars>>

\* ------------------------------------------------------------------ Alarm
Alarm(i, n, t) == [id |-> i, name |-> n, time |-> t]
NoAlarm == Alarm(0, "", 0)

\* impl Ord for Alarm: by time alone
AlarmLe(a, b) == a.time <= b.time

NoReq == [op |-> "idle", alarm |-> NoAlarm, name |-> ""]

\* ------------------------------------------------------------- SortedVec
\* binary_search by Ord: the index of some equal element when there is one,
\* otherwise the index at which the element keeps the vector sorted
\* a plain Vec::push in place of the sorted insert
PushPosition(q, a) == {Len(q) + 1}

InsertPositions(q, a) ==
    LET eq == {i \in 1..Len(q) : q[i].time = a.time}
    IN  IF eq # {} THEN eq
        ELSE {1 + Cardinality({i \in 1..Len(q) : q[i].time < a.time})}

InsertAt(q, p, a) == SubSeq(q, 1, p - 1) \o <<a>> \o SubSeq(q, p, Len(q))

\* SortedVec::pop is Vec::pop: the last element
PopIndex(q) == Len(q)

\* a removal that leaves the vector as it was
KeepIndex(q, p) == q

RemoveIndex(q, p) == SubSeq(q, 1, p - 1) \o SubSeq(q, p + 1, Len(q))

\* iter().position(|alarm| alarm.name == name): 0 stands for None
\* the last alarm with the name rather than the first
LastPosition(q, n) ==
    LET hits == {i \in 1..Len(q) : q[i].name = n}
    IN  IF hits = {} THEN 0 ELSE CHOOSE i \in hits : \A j \in hits : i >= j

\* the head of the queue when no alarm has the name
PositionOrFirst(q, n) ==
    LET hits == {i \in 1..Len(q) : q[i].name = n}
    IN  IF hits = {} THEN (IF q = <<>> THEN 0 ELSE 1)
        ELSE CHOOSE i \in hits : \A j \in hits : i <= j

\* one tick short of the due time
EarlySleepTime(a, t) == a.time - t - 1

Position(q, n) ==
    LET hits == {i \in 1..Len(q) : q[i].name = n}
    IN  IF hits = {} THEN 0 ELSE CHOOSE i \in hits : \A j \in hits : i <= j

\* ----------------------------------------------------------------- Alarm::activate
\* a sleep that does not look at the due time
NoSleepTime(a, t) == 0

\* self.time - Local::now(), a signed chrono::Duration
SleepTime(a, t) == a.time - t

\* Duration::to_std is Err for a negative duration, and the unwrap panics
ToStdFails(d) == d < 0

\* ================================================================ tasks
\* The task tree of src/src/task/mod.rs: a root with two subtasks, the first
\* of which has a subtask of its own.
Tasks == {1, 2, 3, 4}
Children(t) == CASE t = 1 -> <<2, 3>> [] t = 2 -> <<4>> [] OTHER -> <<>>

\* enum TaskStatus
Statuses == {"InProgress", "OnHold", "Completed"}

\* notes added to the whole tree in one behaviour
MaxNotes == 2
\* the perc values add_note is called with: any i32 is accepted
Percs == {-60, 40, 150}

\* ProgressNote.completed: Option<Completion>
SomePerc(p) == [some |-> TRUE, val |-> p]
NonePerc == [some |-> FALSE, val |-> 0]

\* the task state the methods work on: every task's status and notes
TState(st, nt) == [st |-> st, nt |-> nt]
\* Result<(), Box<dyn Error>> together with the state the call leaves behind
Ok(s) == [ok |-> TRUE, s |-> s]
Err(s) == [ok |-> FALSE, s |-> s]

SetStatus(s, t, v) == [s EXCEPT !.st[t] = v]

\* a guard that only refuses a task already on hold
PauseAllowedLoose(v) == v # "OnHold"

\* pause: if self.status == TaskStatus::InProgress
PauseAllowed(v) == v = "InProgress"

\* complete: if self.status != TaskStatus::Completed
CompleteAllowed(v) == v # "Completed"

\* restart: if self.status == TaskStatus::Completed
RestartAllowed(v) == v = "Completed"

\* the subtasks resume and complete visit: .filter(|task| task.status != Completed)
NotCompleted(s, t) == s.st[t] # "Completed"

RECURSIVE Pause(_, _), PauseKids(_, _, _)
\* for task in self.subtasks.iter_mut() { task.pause()?; }
PauseKids(s, kids, i) ==
    IF i > Len(kids) THEN Ok(s)
    ELSE LET r == Pause(s, kids[i])
         IN  IF r.ok THEN PauseKids(r.s, kids, i + 1) ELSE r

\* Task::pause
Pause(s, t) ==
    IF PauseAllowed(s.st[t])
    THEN LET r == PauseKids(s, Children(t), 1)
         IN  IF r.ok THEN Ok(SetStatus(r.s, t, "OnHold")) ELSE r
    ELSE Err(s)

RECURSIVE Resume(_, _), ResumeKids(_, _, _)
\* the filtered loop of resume: task.resume()?
ResumeKids(s, kids, i) ==
    IF i > Len(kids) THEN Ok(s)
    ELSE IF ~NotCompleted(s, kids[i]) THEN ResumeKids(s, kids, i + 1)
    ELSE LET r == Resume(s, kids[i])
         IN  IF r.ok THEN ResumeKids(r.s, kids, i + 1) ELSE r

\* Task::resume
Resume(s, t) ==
    CASE s.st[t] = "OnHold" ->
           LET r == ResumeKids(s, Children(t), 1)
           IN  IF r.ok THEN Ok(SetStatus(r.s, t, "InProgress")) ELSE r
      [] s.st[t] = "InProgress" -> Ok(s)
      [] OTHER -> Err(s)

RECURSIVE Complete(_, _), CompleteKids(_, _, _)
\* the filtered loop of complete: task.complete()?
CompleteKids(s, kids, i) ==
    IF i > Len(kids) THEN Ok(s)
    ELSE IF ~NotCompleted(s, kids[i]) THEN CompleteKids(s, kids, i + 1)
    ELSE LET r == Complete(s, kids[i])
         IN  IF r.ok THEN CompleteKids(r.s, kids, i + 1) ELSE r

\* Task::complete
Complete(s, t) ==
    IF CompleteAllowed(s.st[t])
    THEN LET r == CompleteKids(s, Children(t), 1)
         IN  IF r.ok THEN Ok(SetStatus(r.s, t, "Completed")) ELSE r
    ELSE Err(s)

\* notes.iter_mut().for_each(|note| note.reset_completion())
ResetCompletion(ns) == [i \in 1..Len(ns) |-> NonePerc]

RECURSIVE Restart(_, _), RestartKids(_, _, _)
\* for task in self.subtasks.iter_mut() { task.restart()?; }
RestartKids(s, kids, i) ==
    IF i > Len(kids) THEN Ok(s)
    ELSE LET r == Restart(s, kids[i])
         IN  IF r.ok THEN RestartKids(r.s, kids, i + 1) ELSE r

\* Task::restart
Restart(s, t) ==
    IF RestartAllowed(s.st[t])
    THEN LET r == RestartKids(s, Children(t), 1)
         IN  IF r.ok
             THEN Ok(SetStatus([r.s EXCEPT !.nt[t] = ResetCompletion(@)], t, "InProgress"))
             ELSE r
    ELSE Err(s)

RECURSIVE Reset(_, _), ResetKids(_, _, _)
\* for task in self.subtasks.iter_mut() { task.reset(); }
ResetKids(s, kids, i) ==
    IF i > Len(kids) THEN s ELSE ResetKids(Reset(s, kids[i]), kids, i + 1)

\* Task::reset
Reset(s, t) ==
    SetStatus([ResetKids(s, Children(t), 1) EXCEPT !.nt[t] = <<>>], t, "InProgress")

\* ------------------------------------------------------------- Completion
\* impl Add for Completion: the sum, capped at 100 from above only
CompletionAdd(a, b) == IF a + b < 100 THEN a + b ELSE 100

\* i32 division truncates toward zero
TruncDiv(a, b) == IF a >= 0 THEN a \div b ELSE -((-a) \div b)

\* Completion::new: assert!(perc >= 0 && perc <= 100)
NewPanics(p) == ~(p >= 0 /\ p <= 100)

RECURSIVE FoldNotes(_, _, _)
\* Task::completion_notes_only: fold from Completion::zero()
FoldNotes(ns, i, acc) ==
    IF i > Len(ns) THEN acc
    ELSE FoldNotes(ns, i + 1,
                   IF ns[i].some THEN CompletionAdd(acc, ns[i].val) ELSE acc)

CompletionNotesOnly(s, t) == FoldNotes(s.nt[t], 1, 0)

\* what a call evaluates to: a value, or a panic
Val(v) == [panic |-> FALSE, val |-> v]
Panic == [panic |-> TRUE, val |-> 0]

RECURSIVE CompletionOf(_, _), FoldKids(_, _, _, _)
\* the fold over the subtasks: acc + subtask.completion().val()
FoldKids(s, kids, i, acc) ==
    IF i > Len(kids) THEN Val(acc)
    ELSE LET c == CompletionOf(s, kids[i])
         IN  IF c.panic THEN Panic ELSE FoldKids(s, kids, i + 1, acc + c.val)

\* Task::completion
CompletionOf(s, t) ==
    IF s.st[t] = "Completed" THEN Val(100)
    ELSE LET sum == FoldKids(s, Children(t), 1, CompletionNotesOnly(s, t))
             avg == TruncDiv(sum.val, Len(Children(t)) + 1)
         IN  IF sum.panic \/ NewPanics(avg) THEN Panic ELSE Val(avg)

\* ------------------------------------------------------------ task steps
\* the last call on the tree: the method, its receiver, the receiver's status
\* when called, Ok or Err (a panic counts as not ok), and the value returned
NoCall == [op |-> "none", task |-> 0, was |-> "none", ok |-> TRUE, val |-> 0]
Call(op, t, ok, v) == [op |-> op, task |-> t, was |-> status[t], ok |-> ok, val |-> v]

\* Task::new(TaskBuilder::new()): in progress, no notes
TaskDefault ==
    /\ status = [t \in Tasks |-> "InProgress"]
    /\ notes = [t \in Tasks |-> <<>>]
    /\ tlast = NoCall

NotesTotal == Len(notes[1]) + Len(notes[2]) + Len(notes[3]) + Len(notes[4])

\* ------------------------------------------------------------------ Init
NaggerInit ==
    /\ alarms = <<>>
    /\ lock = "free"
    /\ rpc = "lock"
    /\ cur = NoAlarm
    /\ timer = 0
    /\ now = 0
    /\ creq = [c \in Callers |-> NoReq]
    /\ nextId = 0
    /\ sent = <<>>
    /\ chanLen = 0
    /\ closed = FALSE
    /\ removed = {}
    /\ early = {}
    /\ insDuringWait = FALSE
    /\ delMiss = FALSE

\* the scheduler beside a default task
Init == NaggerInit /\ TaskDefault

\* ------------------------------------------------------------------ clock
\* one tick of time: the clock advances (saturating) and a running sleep
\* gets one tick closer to its end
Tick ==
    /\ now < MaxTime \/ timer > 0
    /\ now' = IF now < MaxTime THEN now + 1 ELSE now
    /\ timer' = IF timer > 0 THEN timer - 1 ELSE 0
    /\ UNCHANGED <<alarms, lock, rpc, cur, creq, nextId, sent, chanLen,
                   closed, removed, early, insDuringWait>>
    /\ delMiss' = FALSE
    /\ UNCHANGED tvars

\* ---------------------------------------------------------------- callers
\* a caller constructs an alarm and calls add_alarm: it now waits for the lock
CallAdd(c, n, t) ==
    /\ creq[c].op = "idle"
    /\ nextId < MaxAlarms
    /\ nextId' = nextId + 1
    /\ creq' = [creq EXCEPT ![c] = [op |-> "add", alarm |-> Alarm(nextId + 1, n, t), name |-> ""]]
    /\ early' = IF rpc = "wait" /\ t < cur.time THEN early \cup {<<nextId + 1, cur.id>>} ELSE early
    /\ UNCHANGED <<alarms, lock, rpc, cur, timer, now, sent, chanLen,
                   closed, removed, insDuringWait>>
    /\ delMiss' = FALSE
    /\ UNCHANGED tvars

\* self.alarms.lock().await.insert(alarm): lock, insert, unlock
DoAdd(c) ==
    /\ creq[c].op = "add"
    /\ lock = "free"
    /\ \E p \in InsertPositions(alarms, creq[c].alarm) :
           alarms' = InsertAt(alarms, p, creq[c].alarm)
    /\ creq' = [creq EXCEPT ![c] = NoReq]
    /\ insDuringWait' = (insDuringWait \/ rpc \in {"wait", "send"})
    /\ UNCHANGED <<lock, rpc, cur, timer, now, nextId, sent, chanLen,
                   closed, removed, early>>
    /\ delMiss' = FALSE
    /\ UNCHANGED tvars

\* a caller calls del_alarm(name): it now waits for the lock
CallDel(c, n) ==
    /\ creq[c].op = "idle"
    /\ creq' = [creq EXCEPT ![c] = [op |-> "del", alarm |-> NoAlarm, name |-> n]]
    /\ UNCHANGED <<alarms, lock, rpc, cur, timer, now, nextId, sent,
                   chanLen, closed, removed, early, insDuringWait>>
    /\ delMiss' = FALSE
    /\ UNCHANGED tvars

\* lock, position, remove_index, unlock
DoDel(c) ==
    /\ creq[c].op = "del"
    /\ lock = "free"
    /\ LET p == Position(alarms, creq[c].name)
       IN  IF p = 0
           THEN /\ delMiss' = TRUE
                /\ UNCHANGED <<alarms, removed>>
           ELSE /\ alarms' = RemoveIndex(alarms, p)
                /\ removed' = removed \cup {alarms[p]}
                /\ delMiss' = FALSE
    /\ creq' = [creq EXCEPT ![c] = NoReq]
    /\ UNCHANGED <<lock, rpc, cur, timer, now, nextId, sent, chanLen, closed,
                   early, insDuringWait>>
    /\ UNCHANGED tvars

\* ----------------------------------------------------------- Nagger::runner
\* match alarms.lock().await.pop(): the MutexGuard is a temporary of the
\* match scrutinee, so it lives until the end of the match, arms included.
\* Some(alarm) => alarm.activate(): the loop runs on, without suspending, to
\* the sleep inside activate, for sleep_time = self.time - Local::now()
\* a loop that reads the alarm it waits for and leaves it in the queue
RunnerPeekActivate ==
    /\ rpc = "lock"
    /\ lock = "free"
    /\ alarms # <<>>
    /\ LET a == alarms[PopIndex(alarms)]
       IN  /\ ~ToStdFails(SleepTime(a, now))
           /\ cur' = a
           /\ timer' = SleepTime(a, now)
    /\ lock' = "runner"
    /\ rpc' = "wait"
    /\ UNCHANGED <<alarms, now, creq, nextId, sent, chanLen, closed, removed,
                   early, insDuringWait>>
    /\ delMiss' = FALSE
    /\ UNCHANGED tvars

RunnerPopActivate ==
    /\ rpc = "lock"
    /\ lock = "free"
    /\ alarms # <<>>
    /\ LET a == alarms[PopIndex(alarms)]
       IN  /\ ~ToStdFails(SleepTime(a, now))
           /\ cur' = a
           /\ timer' = SleepTime(a, now)
    /\ alarms' = RemoveIndex(alarms, PopIndex(alarms))
    /\ lock' = "runner"
    /\ rpc' = "wait"
    /\ UNCHANGED <<now, creq, nextId, sent, chanLen, closed, removed, early,
                   insDuringWait>>
    /\ delMiss' = FALSE
    /\ UNCHANGED tvars

\* the same with a negative sleep_time: to_std() is Err and unwrap panics; the
\* unwinding task drops its future, and with it the guard and the alarm
RunnerPopPanic ==
    /\ rpc = "lock"
    /\ lock = "free"
    /\ alarms # <<>>
    /\ ToStdFails(SleepTime(alarms[PopIndex(alarms)], now))
    /\ alarms' = RemoveIndex(alarms, PopIndex(alarms))
    /\ rpc' = "panicked"
    /\ UNCHANGED <<lock, cur, timer, now, creq, nextId, sent, chanLen, closed,
                   removed, early, insDuringWait>>
    /\ delMiss' = FALSE
    /\ UNCHANGED tvars

\* None => task::sleep(1 s)
RunnerPopNone ==
    /\ rpc = "lock"
    /\ lock = "free"
    /\ alarms = <<>>
    /\ lock' = "runner"
    /\ rpc' = "poll_sleep"
    /\ timer' = PollInterval
    /\ UNCHANGED <<alarms, cur, now, creq, nextId, sent, chanLen, closed,
                   removed, early, insDuringWait>>
    /\ delMiss' = FALSE
    /\ UNCHANGED tvars

\* the poll sleep is over: the match ends, the guard is dropped, loop
RunnerPollWake ==
    /\ rpc = "poll_sleep"
    /\ timer = 0
    /\ rpc' = "lock"
    /\ lock' = "free"
    /\ UNCHANGED <<alarms, cur, timer, now, creq, nextId, sent, chanLen,
                   closed, removed, early, insDuringWait>>
    /\ delMiss' = FALSE
    /\ UNCHANGED tvars

\* task::sleep(sleep_time) is over
RunnerWake ==
    /\ rpc = "wait"
    /\ timer = 0
    /\ rpc' = "send"
    /\ UNCHANGED <<alarms, lock, cur, timer, now, creq, nextId, sent,
                   chanLen, closed, removed, early, insDuringWait>>
    /\ delMiss' = FALSE
    /\ UNCHANGED tvars

\* tx.send(alarm).await on an open channel with room; then the match ends
RunnerSendOk ==
    /\ rpc = "send"
    /\ ~closed
    /\ chanLen < ChanCap
    /\ sent' = Append(sent, cur)
    /\ chanLen' = chanLen + 1
    /\ cur' = NoAlarm
    /\ rpc' = "lock"
    /\ lock' = "free"
    /\ UNCHANGED <<alarms, timer, now, creq, nextId, closed, removed,
                   early, insDuringWait>>
    /\ delMiss' = FALSE
    /\ UNCHANGED tvars

\* a loop that ignores the failed send and goes round again
RunnerSendErrIgnored ==
    /\ rpc = "send"
    /\ closed
    /\ cur' = NoAlarm
    /\ rpc' = "lock"
    /\ lock' = "free"
    /\ UNCHANGED <<alarms, timer, now, creq, nextId, sent, chanLen,
                   closed, removed, early, insDuringWait>>
    /\ delMiss' = FALSE
    /\ UNCHANGED tvars

\* tx.send(alarm).await is Err on a closed channel: break
RunnerSendErr ==
    /\ rpc = "send"
    /\ closed
    /\ cur' = NoAlarm
    /\ rpc' = "done"
    /\ lock' = "free"
    /\ UNCHANGED <<alarms, timer, now, creq, nextId, sent, chanLen,
                   closed, removed, early, insDuringWait>>
    /\ delMiss' = FALSE
    /\ UNCHANGED tvars

Runner ==
    \/ RunnerPopActivate
    \/ RunnerPopPanic
    \/ RunnerPopNone
    \/ RunnerPollWake
    \/ RunnerWake
    \/ RunnerSendOk
    \/ RunnerSendErr

\* --------------------------------------------------------------- consumer
\* the consumer receives one alarm
Recv ==
    /\ ~closed
    /\ chanLen > 0
    /\ chanLen' = chanLen - 1
    /\ UNCHANGED <<alarms, lock, rpc, cur, timer, now, creq, nextId,
                   sent, removed, early, insDuringWait, closed>>
    /\ delMiss' = FALSE
    /\ UNCHANGED tvars

\* the consumer drops its end: the channel is closed and what it still
\* buffered is discarded
Close ==
    /\ ~closed
    /\ closed' = TRUE
    /\ chanLen' = 0
    /\ UNCHANGED <<alarms, lock, rpc, cur, timer, now, creq, nextId,
                   sent, removed, early, insDuringWait>>
    /\ delMiss' = FALSE
    /\ UNCHANGED tvars

\* ------------------------------------------------------------------ specs
Next ==
    \/ Tick
    \/ \E c \in Callers, n \in Names, t \in Times : CallAdd(c, n, t)
    \/ \E c \in Callers : DoAdd(c)
    \/ \E c \in Callers, n \in Names : CallDel(c, n)
    \/ \E c \in Callers : DoDel(c)
    \/ Runner
    \/ Recv
    \/ Close

Spec == Init /\ [][Next]_vars

\* The liveness specifications draw every name from one value: names only
\* matter to del_alarm's search, not to whether a call or a delivery happens.
LiveName == "x"

\* callers' lock acquisitions: the async Mutex hands the lock to a waiter that
\* has been starved, so a caller that finds the lock free again and again
\* gets it (strong fairness); the runner task and the clock always progress
Fairness ==
    /\ WF_vars(Tick)
    /\ WF_vars(Runner)
    /\ \A c \in Callers : SF_vars(DoAdd(c)) /\ SF_vars(DoDel(c))

\* nobody calls del_alarm; the consumer keeps receiving until it closes
NextLive ==
    \/ Tick
    \/ \E c \in Callers, t \in Times : CallAdd(c, LiveName, t)
    \/ \E c \in Callers : DoAdd(c)
    \/ Runner
    \/ Recv
    \/ Close

LiveSpec == Init /\ [][NextLive]_vars /\ Fairness /\ WF_vars(Recv)

\* callers add and delete; the consumer may receive, or not, or close
NextFair ==
    \/ Tick
    \/ \E c \in Callers, t \in Times : CallAdd(c, LiveName, t)
    \/ \E c \in Callers : DoAdd(c)
    \/ \E c \in Callers : CallDel(c, LiveName)
    \/ \E c \in Callers : DoDel(c)
    \/ Runner
    \/ Recv
    \/ Close

FairSpec == Init /\ [][NextFair]_vars /\ Fairness

\* FairSpec with a consumer that keeps receiving while items are in the channel
CancelSpec == Init /\ [][NextFair]_vars /\ Fairness /\ WF_vars(Recv)

\* ------------------------------------------------------------ task spec
\* one call of a status method on any task of the tree
TaskApply(op, t, r) ==
    /\ status' = r.s.st
    /\ notes' = r.s.nt
    /\ tlast' = Call(op, t, r.ok, 0)
    /\ UNCHANGED nvars

TaskPause(t) == TaskApply("pause", t, Pause(TState(status, notes), t))
TaskResume(t) == TaskApply("resume", t, Resume(TState(status, notes), t))
TaskComplete(t) == TaskApply("complete", t, Complete(TState(status, notes), t))
TaskRestart(t) == TaskApply("restart", t, Restart(TState(status, notes), t))
TaskReset(t) == TaskApply("reset", t, Ok(Reset(TState(status, notes), t)))

\* Task::add_note(note, Some(p)): ProgressNote::with_completion stores
\* Completion(p) as given
TaskAddNoteSome(t, p) ==
    /\ NotesTotal < MaxNotes
    /\ notes' = [notes EXCEPT ![t] = Append(@, SomePerc(p))]
    /\ tlast' = Call("add_note", t, TRUE, 0)
    /\ UNCHANGED <<status, nvars>>

\* Task::add_note(note, None)
TaskAddNoteNone(t) ==
    /\ NotesTotal < MaxNotes
    /\ notes' = [notes EXCEPT ![t] = Append(@, NonePerc)]
    /\ tlast' = Call("add_note", t, TRUE, 0)
    /\ UNCHANGED <<status, nvars>>

\* a call of Task::completion: its value, or the panic of the assertion
TaskCompletion(t) ==
    /\ LET c == CompletionOf(TState(status, notes), t)
       IN  tlast' = Call("completion", t, ~c.panic, c.val)
    /\ UNCHANGED <<status, notes, nvars>>

\* a tree built by TaskBuilder: any status per task, no notes
TaskInit ==
    /\ NaggerInit
    /\ status \in [Tasks -> Statuses]
    /\ notes = [t \in Tasks |-> <<>>]
    /\ tlast = NoCall

TaskNext ==
    \/ \E t \in Tasks : TaskPause(t)
    \/ \E t \in Tasks : TaskResume(t)
    \/ \E t \in Tasks : TaskComplete(t)
    \/ \E t \in Tasks : TaskRestart(t)
    \/ \E t \in Tasks : TaskReset(t)
    \/ \E t \in Tasks, p \in Percs : TaskAddNoteSome(t, p)
    \/ \E t \in Tasks : TaskAddNoteNone(t)
    \/ \E t \in Tasks : TaskCompletion(t)

TaskSpec == TaskInit /\ [][TaskNext]_vars

\* ------------------------------------------------------------- vocabulary
Ids == 1..MaxAlarms
SentIds == {sent[i].id : i \in 1..Len(sent)}
QueuedIds == {alarms[i].id : i \in 1..Len(alarms)}
TimesSent(i) == Cardinality({k \in 1..Len(sent) : sent[k].id = i})
IsSorted(q) == \A i, j \in 1..Len(q) : i < j => AlarmLe(q[i], q[j])
\* the loop is suspended: in the poll sleep, in the alarm's sleep, or in a send
\* on a full open channel
Suspended ==
    \/ rpc \in {"poll_sleep", "wait"}
    \/ rpc = "send" /\ ~closed /\ chanLen >= ChanCap
Terminated == rpc \in {"done", "panicked"}
\* this step is the loop's pop, and it takes alarm a out of the queue
Popped(a) ==
    /\ rpc = "lock" /\ rpc' # "lock"
    /\ a.id \in QueuedIds
    /\ a.id \notin {alarms'[k].id : k \in 1..Len(alarms')}

\* ------------------------------------------------------------------ claims

\* C1: whenever the loop pops from a non-empty queue, the alarm it takes has
\* the smallest due time among the alarms queued at that moment.
C1_PopsMinimum ==
    [][\A i \in 1..Len(alarms) :
         Popped(alarms[i]) => \A j \in 1..Len(alarms) : AlarmLe(alarms[i], alarms[j])]_vars

\* C2: the queue lock is never held across a suspension of the loop: whenever
\* the loop is suspended the lock is free.
C2_LockFreeWhileSuspended == Suspended => lock = "free"

\* C3: when the popped alarm's due time is already past as the wait is
\* computed, the loop does not fail: it goes on to send the alarm.
C3_PastDueProceeds ==
    [][\A i \in 1..Len(alarms) :
         (Popped(alarms[i]) /\ alarms[i].time < now)
           => rpc' = "wait" /\ cur' = alarms[i] /\ timer' = 0]_vars

\* C4: with no del_alarm calls and the consumer receiving, every alarm passed
\* to add_alarm is eventually sent (unless the consumer end gets closed), and
\* none is sent twice.
C4_AllDeliveredOnce ==
    /\ [](\A i \in Ids : TimesSent(i) <= 1)
    /\ \A i \in Ids : (nextId >= i) ~> (TimesSent(i) = 1 \/ closed)

\* C5: the loop's only terminal state is the exit after a failed send on a
\* closed channel: while the consumer end is open the loop has not terminated.
C5_OnlyExitIsClosedSend == Terminated => (closed /\ rpc = "done")

\* C6: the Alarm Queue, front to back, is non-decreasing by due time and holds
\* no alarm that has already been sent.
C6_SortedNoneSent == IsSorted(alarms) /\ QueuedIds \cap SentIds = {}

C6_Witness ==
    /\ Len(alarms) >= 2
    /\ alarms[1].time < alarms[Len(alarms)].time
    /\ sent # <<>>

\* C7: if no alarm was inserted while the loop held a popped alarm, the alarms
\* sent so far were sent in ascending due-time order.
C7_SentAscending == ~insDuringWait => IsSorted(sent)

C7_Witness ==
    /\ ~insDuringWait
    /\ Len(sent) >= 2
    /\ sent[1].time < sent[Len(sent)].time

\* C8: if add_alarm(E) is called while the loop waits on a popped alarm L due
\* later than E, then L is delivered and E is delivered after L (unless the
\* consumer end gets closed).
C8_EarlyDeliveredAfter ==
    \A e, l \in Ids :
        (<<e, l>> \in early)
          ~> \/ \E i, j \in 1..Len(sent) : i < j /\ sent[i].id = l /\ sent[j].id = e
             \/ closed

\* C9: once the consumer end is closed, a send the loop attempts fails and the
\* loop terminates; nothing is sent after the closure; a terminated loop pops
\* and sends nothing more and leaves the lock free, so the queue changes only
\* by the callers' own add_alarm and del_alarm calls, and every call in
\* progress once the loop has terminated returns.
C9_GracefulShutdown ==
    [][/\ (closed /\ rpc = "send" /\ rpc' # "send") => rpc' = "done"
       /\ closed => sent' = sent
       /\ rpc = "done" =>
            /\ rpc' = "done" /\ cur' = NoAlarm /\ lock' = "free"
            /\ alarms' # alarms =>
                 \E c \in Callers : creq[c].op # "idle" /\ creq'[c].op = "idle"]_vars
    /\ \A c \in Callers :
         (rpc = "done" /\ creq[c].op # "idle") ~> (creq[c].op = "idle")

C9_Witness ==
    /\ closed
    /\ rpc = "done"
    /\ alarms # <<>>
    /\ \E c \in Callers : creq[c].op = "add"

\* C10: every add_alarm and del_alarm call eventually returns, whatever the
\* loop is doing.
C10_CallsReturn ==
    \A c \in Callers : (creq[c].op # "idle") ~> (creq[c].op = "idle")

\* a del_alarm call of caller c returns in this step
DelReturns(c) == creq[c].op = "del" /\ creq'[c].op = "idle"
NamedInQueue(n) == {i \in 1..Len(alarms) : alarms[i].name = n}

\* C11: a del_alarm(name) that finds the name in the queue returns exactly one
\* alarm, the first of that name in queue order, which no other alarm of that
\* name precedes in due time; the queue afterwards is the queue before without
\* that one position, so every other alarm keeps its place relative to the rest.
C11_DelRemovesFirst ==
    [][\A c \in Callers :
         (DelReturns(c) /\ NamedInQueue(creq[c].name) # {}) =>
           \E p \in NamedInQueue(creq[c].name) :
             /\ \A j \in NamedInQueue(creq[c].name) :
                    p <= j /\ alarms[p].time <= alarms[j].time
             /\ removed' \ removed = {alarms[p]}
             /\ Len(alarms') = Len(alarms) - 1
             /\ \A i \in 1..Len(alarms') :
                    alarms'[i] = IF i < p THEN alarms[i] ELSE alarms[i + 1]]_vars

\* two alarms of one name with different due times were queued, del_alarm
\* returned the earlier and the later is still in the queue
C11_Witness ==
    \E r \in removed : \E i \in 1..Len(alarms) :
        alarms[i].name = r.name /\ alarms[i].time > r.time

\* C12: a del_alarm(name) that finds no alarm of that name in the queue returns
\* None (nothing joins the returned alarms) and leaves the queue as it was.
C12_DelMissUnchanged ==
    [][\A c \in Callers :
         (DelReturns(c) /\ NamedInQueue(creq[c].name) = {}) =>
           (alarms' = alarms /\ removed' = removed)]_vars

\* a del_alarm call returned None while the queue held an alarm of another
\* name and an alarm had already been delivered
C12_Witness == delMiss /\ alarms # <<>> /\ sent # <<>> /\ removed = {}

RemovedIds == {r.id : r \in removed}
InFlightIds == IF cur = NoAlarm THEN {} ELSE {cur.id}

C14_NotBeforeDue ==
    [][sent' # sent =>
         /\ sent' = Append(sent, cur)
         /\ now >= cur.time]_vars

\* an alarm due at the latest time was added before that time and delivered
C14_Witness ==
    \E i \in 1..Len(sent) : sent[i].time = MaxDue /\ ~(\E j \in 1..Len(sent) : sent[j].time < MaxDue)

\* the alarms whose add_alarm call has returned
PendingAddIds == {creq[c].alarm.id : c \in {d \in Callers : creq[d].op = "add"}}
AddedIds == (1..nextId) \ PendingAddIds
\* in how many of the four places alarm i is
Places(i) ==
    (IF i \in QueuedIds THEN 1 ELSE 0) + (IF i \in InFlightIds THEN 1 ELSE 0)
    + TimesSent(i) + (IF i \in RemovedIds THEN 1 ELSE 0)
\* the added alarms that are in none of the four places
Dropped == {i \in AddedIds : Places(i) = 0}

\* C17 as stated: every added alarm is in exactly one of the queue, the loop,
\* the sent alarms and the alarms returned by del_alarm, and nothing else is
\* in any of them.
C17_ExactlyOnePlace ==
    /\ \A i \in AddedIds : Places(i) = 1
    /\ QueuedIds \cup InFlightIds \cup SentIds \cup RemovedIds \subseteq AddedIds

\* C17, amended: every added alarm is in at most one of the four places, and
\* nothing else is in any of them; an alarm is in none of them only after the
\* loop dropped it as it terminated (a past-due alarm's panic, or a send on a
\* closed channel), so at most one alarm is and only with the loop terminated.
C17_AtMostOnePlace ==
    /\ \A i \in AddedIds : Places(i) <= 1
    /\ QueuedIds \cup InFlightIds \cup SentIds \cup RemovedIds \subseteq AddedIds
    /\ Cardinality(Dropped) <= 1
    /\ Dropped # {} => Terminated

\* one alarm was delivered, one was returned by del_alarm and one was dropped
C17_Witness == sent # <<>> /\ removed # {} /\ Dropped # {}

\* ------------------------------------------------------------ task claims
RECURSIVE Subtree(_)
\* a task and all its descendants
Subtree(t) == {t} \cup UNION {Subtree(Children(t)[i]) : i \in 1..Len(Children(t))}

\* the status changes the claim allows, each with the method that makes it
StatedEdges ==
    { <<"InProgress", "OnHold", "pause">>,
      <<"OnHold", "InProgress", "resume">>,
      <<"InProgress", "Completed", "complete">>,
      <<"Completed", "InProgress", "restart">> }

\* the status changes the methods make
CodeEdges ==
    StatedEdges \cup
    { <<"OnHold", "Completed", "complete">>,
      <<"OnHold", "InProgress", "reset">>,
      <<"Completed", "InProgress", "reset">> }

RECURSIVE SumPercs(_, _)
\* the sum of the percentages of the notes from the i-th on
SumPercs(ns, i) ==
    IF i > Len(ns) THEN 0
    ELSE (IF ns[i].some THEN ns[i].val ELSE 0) + SumPercs(ns, i + 1)

RECURSIVE SumStated(_, _), StatedCompletion(_)
SumStated(kids, i) ==
    IF i > Len(kids) THEN 0 ELSE StatedCompletion(kids[i]) + SumStated(kids, i + 1)
\* completion() as the claim words it
StatedCompletion(t) ==
    IF status[t] = "Completed" THEN 100
    ELSE LET own == IF SumPercs(notes[t], 1) > 100 THEN 100 ELSE SumPercs(notes[t], 1)
         IN  (own + SumStated(Children(t), 1)) \div (Len(Children(t)) + 1)

\* C16: a call of completion() returns 100 for a Completed task, and otherwise
\* the integer average of the sum of the task's note percentages, capped at
\* 100, and the completion() of each subtask.
C16_CompletionAsStated ==
    tlast.op = "completion" =>
        tlast.ok /\ tlast.val = StatedCompletion(tlast.task)

\* C18: a call of completion() never fails the assertion of Completion::new
\* and returns a value from 0 to 100, whatever percentages the notes were
\* added with.
C18_CompletionInRange ==
    tlast.op = "completion" =>
        tlast.ok /\ tlast.val >= 0 /\ tlast.val <= 100

\* C19: a call of pause, resume, complete or restart that returns Err leaves
\* every task's status as it was before the call.
C19_AllOrNothing ==
    [][(tlast'.op \in {"pause", "resume", "complete", "restart"} /\ ~tlast'.ok)
           => status' = status]_vars

\* C20: after a pause that returns Ok every task of the receiver's subtree is
\* OnHold, after a complete that returns Ok every one is Completed, after a
\* restart that returns Ok every one is InProgress, and after a resume that
\* returns Ok right after a pause of the same task that returned Ok every one
\* is InProgress.
C20_WholeSubtree ==
    [][tlast'.ok =>
         \A d \in Subtree(tlast'.task) :
            /\ tlast'.op = "pause" => status'[d] = "OnHold"
            /\ tlast'.op = "complete" => status'[d] = "Completed"
            /\ tlast'.op = "restart" => status'[d] = "InProgress"
            /\ (tlast'.op = "resume" /\ tlast.op = "pause" /\ tlast.ok
                  /\ tlast.task = tlast'.task) => status'[d] = "InProgress"]_vars

====
